---- MODULE Spec2Model ----
(***************************************************************************)
(* Model of Restaurant_Browsing.py: RestaurantDatabase, RestaurantBrowsing *)
(* and RestaurantSearch.                                                   *)
(*                                                                         *)
(* Representation of the Python values:                                    *)
(*   - a str is the sequence of its character codes (ASCII), so that       *)
(*     str.lower() is computed character by character;                     *)
(*   - a rating (a float with one decimal in the source) is the integer    *)
(*     number of tenths: 4.5 is 45, 4.0 is 40;                             *)
(*   - an optional value is a sequence of length at most one: None is      *)
(*     <<>> and a supplied value v is <<v>>.  A dictionary key that may be *)
(*     absent (delivery_speed) is represented the same way;                *)
(*   - the outcome of a call is either a returned list or a raised         *)
(*     exception.                                                          *)
(***************************************************************************)
EXTENDS Integers, Sequences, FiniteSets

VARIABLES restaurants, op, args, outcome

vars == <<restaurants, op, args, outcome>>

\* ---------------------------------------------------------------- values

None == <<>>

Some(v) == <<v>>

Ok(list) == [status |-> "ok", results |-> list]

Raise(exc) == [status |-> exc, results |-> <<>>]

NoArgs == [cuisine_type |-> None, location |-> None, rating |-> None, delivery_speed |-> None]

\* ---------------------------------------------------------------- strings

EmptyStr == <<>>

Italian == <<73, 116, 97, 108, 105, 97, 110>>

Japanese == <<74, 97, 112, 97, 110, 101, 115, 101>>

American == <<65, 109, 101, 114, 105, 99, 97, 110>>

Mexican == <<77, 101, 120, 105, 99, 97, 110>>

Vegan == <<86, 101, 103, 97, 110>>

Chinese == <<67, 104, 105, 110, 101, 115, 101>>

NewYork == <<78, 101, 119, 32, 89, 111, 114, 107>>

SanFrancisco == <<83, 97, 110, 32, 70, 114, 97, 110, 99, 105, 115, 99, 111>>

LosAngeles == <<76, 111, 115, 32, 65, 110, 103, 101, 108, 101, 115>>

Chicago == <<67, 104, 105, 99, 97, 103, 111>>

Austin == <<65, 117, 115, 116, 105, 110>>

Seattle == <<83, 101, 97, 116, 116, 108, 101>>

Downtown == <<68, 111, 119, 110, 116, 111, 119, 110>>

\* strings that occur only as arguments or in the sample records
ItalianUpper == <<73, 84, 65, 76, 73, 65, 78>>

DowntownLower == <<100, 111, 119, 110, 116, 111, 119, 110>>

Thai == <<84, 104, 97, 105>>

Mars == <<77, 97, 114, 115>>

\* str.lower() on one ASCII character: 'A'..'Z' (65..90) map to 'a'..'z'
LowerChar(c) == IF c >= 65 /\ c <= 90 THEN c + 32 ELSE c

\* str.lower()
lower(s) == [i \in 1..Len(s) |-> LowerChar(s[i])]

\* Python truthiness of an optional str: None and "" are falsy
StrTruthy(x) == x # None /\ Len(x[1]) > 0

\* Python truthiness of an optional int: None and 0 are falsy
IntTruthy(x) == x # None /\ x[1] # 0

\* ---------------------------------------------------------------- database

\* RestaurantDatabase.__init__: the seed records
SeedRestaurants ==
  << [name |-> "Pizza Palace", cuisine |-> Italian, location |-> NewYork,
      rating |-> 45, delivery_speed |-> Some(30)],
     [name |-> "Sushi World", cuisine |-> Japanese, location |-> SanFrancisco,
      rating |-> 47, delivery_speed |-> Some(40)],
     [name |-> "Burger Shack", cuisine |-> American, location |-> LosAngeles,
      rating |-> 42, delivery_speed |-> Some(25)],
     [name |-> "Taco Stand", cuisine |-> Mexican, location |-> Chicago,
      rating |-> 39, delivery_speed |-> Some(20)],
     [name |-> "Vegan Delight", cuisine |-> Vegan, location |-> Austin,
      rating |-> 48, delivery_speed |-> Some(35)],
     [name |-> "Dim Sum House", cuisine |-> Chinese, location |-> Seattle,
      rating |-> 46, delivery_speed |-> Some(50)],
     [name |-> "Italian Bistro", cuisine |-> Italian, location |-> Downtown,
      rating |-> 40, delivery_speed |-> Some(30)],
     [name |-> "Sushi Express", cuisine |-> Japanese, location |-> Downtown,
      rating |-> 42, delivery_speed |-> Some(30)] >>

\* get_restaurants handing out the list back to front
get_restaurants_reversed(db) == [i \in 1..Len(db) |-> db[Len(db) + 1 - i]]

\* RestaurantDatabase.get_restaurants: the list itself, not a copy
get_restaurants(db) == db

\* ---------------------------------------------------------------- browsing

\* search_by_cuisine normalising the cuisine of the records it returns
search_by_cuisine_normalising(db, cuisine_type) ==
  LET found == SelectSeq(get_restaurants(db),
                         LAMBDA restaurant:
                           lower(restaurant.cuisine) = lower(cuisine_type))
  IN  [i \in 1..Len(found) |-> [found[i] EXCEPT !.cuisine = lower(found[i].cuisine)]]

\* search_by_cuisine lowering the record's cuisine only, not the argument
search_by_cuisine_raw_arg(db, cuisine_type) ==
  SelectSeq(get_restaurants(db),
            LAMBDA restaurant: lower(restaurant.cuisine) = cuisine_type)

search_by_cuisine(db, cuisine_type) ==
  SelectSeq(get_restaurants(db),
            LAMBDA restaurant: lower(restaurant.cuisine) = lower(cuisine_type))

search_by_location(db, location) ==
  SelectSeq(get_restaurants(db),
            LAMBDA restaurant: lower(restaurant.location) = lower(location))

\* search_by_rating with > for >=
search_by_rating_strict(db, min_rating) ==
  SelectSeq(get_restaurants(db), LAMBDA restaurant: restaurant.rating > min_rating)

search_by_rating(db, min_rating) ==
  SelectSeq(get_restaurants(db), LAMBDA restaurant: restaurant.rating >= min_rating)

\* search_by_filters with elif for the second and later if: only the first
\* supplied filter is applied
search_by_filters_elif(db, cuisine_type, location, rating, delivery_speed) ==
  LET r0 == get_restaurants(db)
  IN  IF StrTruthy(cuisine_type)
      THEN SelectSeq(r0, LAMBDA restaurant:
                           lower(restaurant.cuisine) = lower(cuisine_type[1]))
      ELSE IF StrTruthy(location)
      THEN SelectSeq(r0, LAMBDA restaurant:
                           lower(restaurant.location) = lower(location[1]))
      ELSE IF rating # None
      THEN SelectSeq(r0, LAMBDA r: r.rating >= rating[1])
      ELSE IF delivery_speed # None
      THEN SelectSeq(r0, LAMBDA r: IntTruthy(r.delivery_speed)
                                   /\ r.delivery_speed[1] <= delivery_speed[1])
      ELSE r0

search_by_filters(db, cuisine_type, location, rating, delivery_speed) ==
  LET r0 == get_restaurants(db)
      r1 == IF StrTruthy(cuisine_type)
            THEN SelectSeq(r0, LAMBDA restaurant:
                                 lower(restaurant.cuisine) = lower(cuisine_type[1]))
            ELSE r0
      r2 == IF StrTruthy(location)
            THEN SelectSeq(r1, LAMBDA restaurant:
                                 lower(restaurant.location) = lower(location[1]))
            ELSE r1
      r3 == IF rating # None
            THEN SelectSeq(r2, LAMBDA r: r.rating >= rating[1])
            ELSE r2
      r4 == IF delivery_speed # None
            THEN SelectSeq(r3, LAMBDA r: IntTruthy(r.delivery_speed)
                                         /\ r.delivery_speed[1] <= delivery_speed[1])
            ELSE r3
  IN  r4

\* the parameters search_by_filters declares
FilterParams == {"cuisine_type", "location", "rating", "delivery_speed"}

\* a parameter's value in a keyword call: the keyword's value, else the default None
KwArg(kw, p) == IF p \in DOMAIN kw THEN kw[p] ELSE None

\* a call of search_by_filters by keyword arguments: a keyword that is not a
\* parameter raises TypeError before the body runs
call_search_by_filters(db, kw) ==
  IF DOMAIN kw \subseteq FilterParams
  THEN Ok(search_by_filters(db, KwArg(kw, "cuisine_type"), KwArg(kw, "location"),
                            KwArg(kw, "rating"), KwArg(kw, "delivery_speed")))
  ELSE Raise("TypeError")

\* RestaurantSearch.search_restaurants
search_restaurants(db, cuisine, location, rating) ==
  call_search_by_filters(db, [cuisine_type |-> cuisine, location |-> location,
                              min_rating |-> rating])

\* ---------------------------------------------------------------- inputs

MaxDbLen == 2

\* records a caller-built database may hold: stored upper/lower case strings,
\* a delivery_speed of 0 minutes, a record without the delivery_speed key
SampleRecords ==
  { [name |-> "Trattoria", cuisine |-> ItalianUpper, location |-> DowntownLower,
     rating |-> 40, delivery_speed |-> Some(0)],
    [name |-> "Thai Corner", cuisine |-> Thai, location |-> Downtown,
     rating |-> 49, delivery_speed |-> None],
    [name |-> "Italian Bistro", cuisine |-> Italian, location |-> Downtown,
     rating |-> 40, delivery_speed |-> Some(30)] }

RECURSIVE SeqsUpTo(_, _)
SeqsUpTo(S, n) ==
  IF n = 0 THEN { <<>> }
  ELSE LET shorter == SeqsUpTo(S, n - 1)
       IN  shorter \cup { Append(s, x) : s \in shorter, x \in S }

\* the databases a RestaurantBrowsing is constructed over
Databases == { SeedRestaurants } \cup SeqsUpTo(SampleRecords, MaxDbLen)

CuisineArgs == { Italian, ItalianUpper, Thai, EmptyStr }

LocationArgs == { Downtown, DowntownLower, Mars, EmptyStr }

RatingArgs == { 0, 40, 49 }

SpeedArgs == { 0, 25, 30 }

Opt(S) == { None } \cup { Some(v) : v \in S }

\* ---------------------------------------------------------------- actions

Init ==
  /\ restaurants \in Databases
  /\ op = "init"
  /\ args = NoArgs
  /\ outcome = Ok(<<>>)

SearchByCuisine ==
  \E c \in CuisineArgs :
    /\ op' = "search_by_cuisine"
    /\ args' = [NoArgs EXCEPT !.cuisine_type = Some(c)]
    /\ outcome' = Ok(search_by_cuisine(restaurants, c))
    /\ UNCHANGED restaurants

SearchByLocation ==
  \E l \in LocationArgs :
    /\ op' = "search_by_location"
    /\ args' = [NoArgs EXCEPT !.location = Some(l)]
    /\ outcome' = Ok(search_by_location(restaurants, l))
    /\ UNCHANGED restaurants

SearchByRating ==
  \E m \in RatingArgs :
    /\ op' = "search_by_rating"
    /\ args' = [NoArgs EXCEPT !.rating = Some(m)]
    /\ outcome' = Ok(search_by_rating(restaurants, m))
    /\ UNCHANGED restaurants

SearchByFilters ==
  \E c \in Opt(CuisineArgs), l \in Opt(LocationArgs),
     m \in Opt(RatingArgs), w \in Opt(SpeedArgs) :
    /\ op' = "search_by_filters"
    /\ args' = [cuisine_type |-> c, location |-> l, rating |-> m, delivery_speed |-> w]
    /\ outcome' = call_search_by_filters(restaurants,
                     [cuisine_type |-> c, location |-> l, rating |-> m,
                      delivery_speed |-> w])
    /\ UNCHANGED restaurants

SearchRestaurants ==
  \E c \in Opt(CuisineArgs), l \in Opt(LocationArgs), m \in Opt(RatingArgs) :
    /\ op' = "search_restaurants"
    /\ args' = [cuisine_type |-> c, location |-> l, rating |-> m, delivery_speed |-> None]
    /\ outcome' = search_restaurants(restaurants, c, l, m)
    /\ UNCHANGED restaurants

Next ==
  \/ SearchByCuisine
  \/ SearchByLocation
  \/ SearchByRating
  \/ SearchByFilters
  \/ SearchRestaurants

Spec == Init /\ [][Next]_vars

TypeOK ==
  /\ restaurants \in Databases
  /\ outcome.status \in {"ok", "TypeError"}

\* ---------------------------------------------------------------- properties

BrowsingOps == {"search_by_cuisine", "search_by_location", "search_by_rating",
                "search_by_filters"}

IsLetter(c) == (c >= 65 /\ c <= 90) \/ (c >= 97 /\ c <= 122)

\* a and b are the same string up to the case of their letters
SameIgnoringCase(a, b) ==
  /\ Len(a) = Len(b)
  /\ \A i \in 1..Len(a) :
       \/ a[i] = b[i]
       \/ /\ IsLetter(a[i])
          /\ IsLetter(b[i])
          /\ (a[i] = b[i] + 32 \/ b[i] = a[i] + 32)

\* the predicates of a call, as the specification states them: a supplied
\* (not None) argument is a predicate, an unset one is none
Satisfies(r, a) ==
  /\ a.cuisine_type # None => SameIgnoringCase(r.cuisine, a.cuisine_type[1])
  /\ a.location # None => SameIgnoringCase(r.location, a.location[1])
  /\ a.rating # None => r.rating >= a.rating[1]
  /\ a.delivery_speed # None =>
       r.delivery_speed # None /\ r.delivery_speed[1] <= a.delivery_speed[1]

\* a is b with some elements left out: order and multiplicity respected
RECURSIVE IsSubSeq(_, _)
IsSubSeq(a, b) ==
  IF a = <<>> THEN TRUE
  ELSE IF b = <<>> THEN FALSE
  ELSE IF Head(a) = Head(b) THEN IsSubSeq(Tail(a), Tail(b))
  ELSE IsSubSeq(a, Tail(b))

Count(s, x) == Cardinality({ i \in DOMAIN s : s[i] = x })

\* res holds exactly the elements of db that satisfy P, in db's order
ExactlyThose(res, db, P(_)) ==
  /\ IsSubSeq(res, db)
  /\ \A i \in DOMAIN res : P(res[i])
  /\ \A i \in DOMAIN db : P(db[i]) => Count(res, db[i]) = Count(db, db[i])

\* C1: search_by_filters returns exactly the records that satisfy every
\* supplied predicate (the logical AND of the supplied predicates), for every
\* combination of supplied and unset arguments.
C1_FiltersAreConjunction ==
  op = "search_by_filters" =>
    /\ outcome.status = "ok"
    /\ ExactlyThose(outcome.results, restaurants, LAMBDA r : Satisfies(r, args))

\* C2: search_restaurants(cuisine, location, rating) returns what
\* search_by_filters returns for the same cuisine, location and rating, and
\* does not end in an error.
C2_SearchRestaurantsIsPassThrough ==
  op = "search_restaurants" =>
    outcome = Ok(search_by_filters(restaurants, args.cuisine_type, args.location,
                                   args.rating, None))

\* C3: a search_by_filters call with all four arguments None returns the
\* database's records, all of them, unchanged and in the database's order,
\* whatever calls came before; the database is the same after the call.
C3_NoFilterReturnsAll ==
  [][(op' = "search_by_filters" /\ args' = NoArgs) =>
       (outcome' = Ok(restaurants) /\ restaurants' = restaurants)]_vars

C3_Witness ==
  /\ op = "search_by_filters"
  /\ args = NoArgs
  /\ Len(restaurants) >= 2
  /\ restaurants[1] # restaurants[Len(restaurants)]
  /\ outcome = Ok(restaurants)

\* C4: whatever a browsing operation returns is the database with some
\* records left out: no record invented, altered or duplicated.
C4_ResultSubsetOfDatabase ==
  op \in BrowsingOps =>
    /\ outcome.status = "ok"
    /\ IsSubSeq(outcome.results, restaurants)

C4_Witness ==
  /\ op = "search_by_cuisine"
  /\ outcome.status = "ok"
  /\ Len(outcome.results) >= 1
  /\ Len(outcome.results) < Len(restaurants)
  /\ \E i \in DOMAIN outcome.results :
       outcome.results[i].cuisine # lower(outcome.results[i].cuisine)

\* C5: search_by_rating(m) returns exactly the records with rating >= m, the
\* records with rating = m included; on the seed data with m = 4.0 these are
\* 7 records.
C5_RatingThreshold ==
  op = "search_by_rating" =>
    /\ outcome.status = "ok"
    /\ ExactlyThose(outcome.results, restaurants,
                    LAMBDA r : r.rating >= args.rating[1])
    /\ (restaurants = SeedRestaurants /\ args.rating = Some(40)) =>
         Len(outcome.results) = 7

C5_Witness ==
  /\ op = "search_by_rating"
  /\ restaurants = SeedRestaurants
  /\ args.rating = Some(40)
  /\ Len(outcome.results) = 7
  /\ \E i \in DOMAIN outcome.results : outcome.results[i].rating = 40

\* C6: search_by_cuisine(c) and search_by_location(l) return exactly the
\* records whose cuisine (location) is c (l) up to letter case; on the seed
\* data "Italian" in any case gives 2 records and "Downtown" in any case
\* gives 2 records.
C6_CaseInsensitiveMatch ==
  /\ op = "search_by_cuisine" =>
       /\ outcome.status = "ok"
       /\ ExactlyThose(outcome.results, restaurants,
                       LAMBDA r : SameIgnoringCase(r.cuisine, args.cuisine_type[1]))
       /\ (restaurants = SeedRestaurants
           /\ SameIgnoringCase(args.cuisine_type[1], Italian)) =>
            Len(outcome.results) = 2
  /\ op = "search_by_location" =>
       /\ outcome.status = "ok"
       /\ ExactlyThose(outcome.results, restaurants,
                       LAMBDA r : SameIgnoringCase(r.location, args.location[1]))
       /\ (restaurants = SeedRestaurants
           /\ SameIgnoringCase(args.location[1], Downtown)) =>
            Len(outcome.results) = 2

C6_Witness ==
  /\ op = "search_by_cuisine"
  /\ restaurants = SeedRestaurants
  /\ args.cuisine_type = Some(ItalianUpper)
  /\ Len(outcome.results) = 2

\* C7: on the seed data, search_by_filters(cuisine_type="Italian",
\* location="Downtown", rating=4.0) returns one record, named "Italian Bistro".
C7_ItalianDowntownFour ==
  (/\ op = "search_by_filters"
   /\ restaurants = SeedRestaurants
   /\ args = [cuisine_type |-> Some(Italian), location |-> Some(Downtown),
              rating |-> Some(40), delivery_speed |-> None]) =>
    /\ outcome.status = "ok"
    /\ Len(outcome.results) = 1
    /\ outcome.results[1].name = "Italian Bistro"

C7_Witness ==
  /\ op = "search_by_filters"
  /\ restaurants = SeedRestaurants
  /\ args = [cuisine_type |-> Some(Italian), location |-> Some(Downtown),
             rating |-> Some(40), delivery_speed |-> None]
  /\ outcome.status = "ok"
  /\ Len(outcome.results) = 1

\* C8: a browsing operation whose supplied criteria no record satisfies
\* returns the empty list: not None, not an error.
C8_NoMatchGivesEmptyList ==
  (/\ op \in BrowsingOps
   /\ args # NoArgs
   /\ \A i \in DOMAIN restaurants : ~Satisfies(restaurants[i], args)) =>
    outcome = Ok(<<>>)

\* C9: with delivery_speed = W supplied to search_by_filters, a record that
\* has a delivery_speed d (0 included) and passes the other supplied
\* predicates is in the result if and only if d <= W.
C9_DeliverySpeedCeiling ==
  (op = "search_by_filters" /\ args.delivery_speed # None) =>
    /\ outcome.status = "ok"
    /\ \A i \in DOMAIN restaurants :
         (/\ restaurants[i].delivery_speed # None
          /\ Satisfies(restaurants[i], [args EXCEPT !.delivery_speed = None])) =>
           ((\E j \in DOMAIN outcome.results : outcome.results[j] = restaurants[i])
             <=> restaurants[i].delivery_speed[1] <= args.delivery_speed[1])

\* C10: search_by_filters with only cuisine_type, only location or only rating
\* supplied (the empty string and 0 included) returns the list that
\* search_by_cuisine, search_by_location or search_by_rating returns for it.
C10_SingleCriterionAgrees ==
  op = "search_by_filters" =>
    /\ (\E c \in CuisineArgs : args = [NoArgs EXCEPT !.cuisine_type = Some(c)]) =>
         outcome = Ok(search_by_cuisine(restaurants, args.cuisine_type[1]))
    /\ (\E l \in LocationArgs : args = [NoArgs EXCEPT !.location = Some(l)]) =>
         outcome = Ok(search_by_location(restaurants, args.location[1]))
    /\ (\E m \in RatingArgs : args = [NoArgs EXCEPT !.rating = Some(m)]) =>
         outcome = Ok(search_by_rating(restaurants, args.rating[1]))

====
